---- MODULE Spec2Model ----
(***************************************************************************)
(* The persistent schema of the fashion-hub backend (catalog, customers,   *)
(* orders) as a state machine over the stored tables.  A table is a        *)
(* function from the primary keys of its stored rows to the rows.  The     *)
(* operations are the ones the ORM gives every model: save() (INSERT or    *)
(* UPDATE, with the model's own save() override run first) and delete()    *)
(* (with the on_delete rule of every foreign key that points at the row).  *)
(* Fields that no constraint, default or override reads (descriptions,     *)
(* flags, totals, ...) are left out of the rows.                           *)
(***************************************************************************)
EXTENDS Integers, Sequences, FiniteSets, TLC

VARIABLES
    categories,      \* catalog.Category
    brands,          \* catalog.Brand
    products,        \* catalog.Product
    images,          \* catalog.ProductImage
    variants,        \* catalog.ProductVariant
    reviews,         \* catalog.Review
    users,           \* settings.AUTH_USER_MODEL: the set of stored user ids
    addresses,       \* customers.Address
    coupons,         \* orders.Coupon
    carts,           \* orders.Cart
    cartitems,       \* orders.CartItem
    wishlists,       \* orders.Wishlist
    wishlistitems,   \* orders.WishlistItem
    orders,          \* orders.Order
    orderitems,      \* orders.OrderItem
    now,             \* the clock auto_now / auto_now_add read
    last             \* the last call and how it ended

vars == <<categories, brands, products, images, variants, reviews, users,
          addresses, coupons, carts, cartitems, wishlists, wishlistitems,
          orders, orderitems, now, last>>

catalogTables == <<categories, brands, products, images, variants, reviews>>
orderTables == <<coupons, carts, cartitems, wishlists, wishlistitems, orders, orderitems>>
customerTables == <<users, addresses>>

\* ------------------------------------------------------------------ bounds

MaxRows == 2          \* primary keys per table: 1..MaxRows
MaxTime == 1          \* the clock runs 0..MaxTime

Ids == 1..MaxRows
NULL == 0             \* a null foreign key

\* ---------------------------------------------------------- program constants

CategorySlugMax == 140
BrandSlugMax == 140
ProductSlugMax == 220

\* ------------------------------------------------------------------ slugify
\* A string is a sequence of characters; a character is a one-symbol token.
\* Two tokens stand for non-ASCII characters: "U+00E9" (e acute, whose NFKD
\* form is e + a combining accent) and "U+FB01" (the ligature fi, whose NFKD
\* form is the two letters f i).

UpperCase == {"M", "S", "C", "O", "A"}
LowerCase == {"a", "b", "c", "d", "e", "f", "h", "i", "l", "m", "n", "o", "r", "s", "t", "x"}
Digit == {ToString(d) : d \in 0..9}
WordChar == UpperCase \cup LowerCase \cup Digit \cup {"_"}     \* \w
SpaceChar == {" "}                                             \* \s

\* unicodedata.normalize('NFKD', c).encode('ascii', 'ignore')
AsciiOf(c) ==
    CASE c = "U+00E9" -> <<"e">>
      [] c = "U+FB01" -> <<"f", "i">>
      [] OTHER -> <<c>>

\* str.lower() of one ASCII character
LowerOf(c) ==
    CASE c = "M" -> "m"
      [] c = "S" -> "s"
      [] c = "C" -> "c"
      [] c = "O" -> "o"
      [] c = "A" -> "a"
      [] OTHER -> c

\* The passes below split the string in halves, so that a string of a few
\* hundred characters is handled at a recursion depth of a few levels.
Left(s) == SubSeq(s, 1, Len(s) \div 2)
Right(s) == SubSeq(s, Len(s) \div 2 + 1, Len(s))

RECURSIVE Normalize(_)
Normalize(s) ==
    IF s = <<>> THEN <<>>
    ELSE IF Len(s) = 1 THEN AsciiOf(s[1])
    ELSE Normalize(Left(s)) \o Normalize(Right(s))

\* str.lower()
Lower(s) == [i \in 1..Len(s) |-> LowerOf(s[i])]

\* re.sub(r'[^\w\s-]', '', s)
RECURSIVE StripOther(_)
StripOther(s) ==
    IF s = <<>> THEN <<>>
    ELSE IF Len(s) = 1
         THEN IF s[1] \in WordChar \cup SpaceChar \cup {"-"} THEN s ELSE <<>>
    ELSE StripOther(Left(s)) \o StripOther(Right(s))

\* re.sub(r'[-\s]+', '-', s): every maximal run of hyphens and spaces becomes
\* one hyphen (written at the run's last character)
RECURSIVE CollapseFrom(_, _, _)
CollapseFrom(s, lo, hi) ==
    IF lo > hi THEN <<>>
    ELSE IF lo = hi
         THEN IF s[lo] \notin SpaceChar \cup {"-"} THEN <<s[lo]>>
              ELSE IF lo < Len(s) /\ s[lo + 1] \in SpaceChar \cup {"-"} THEN <<>>
              ELSE <<"-">>
    ELSE CollapseFrom(s, lo, (lo + hi) \div 2) \o CollapseFrom(s, (lo + hi) \div 2 + 1, hi)

CollapseRuns(s) == CollapseFrom(s, 1, Len(s))

\* str.strip('-_')
Strip(s) ==
    LET keep == {i \in 1..Len(s) : s[i] \notin {"-", "_"}}
    IN  IF keep = {} THEN <<>>
        ELSE SubSeq(s, CHOOSE i \in keep : \A j \in keep : i <= j,
                       CHOOSE i \in keep : \A j \in keep : i >= j)

\* django.utils.text.slugify(value), allow_unicode=False
slugify(value) ==
    Strip(CollapseRuns(StripOther(Lower(Normalize(value)))))

\* s[:n]
Slice(s, n) == SubSeq(s, 1, IF Len(s) < n THEN Len(s) ELSE n)

\* ------------------------------------------------------------------- tables

EmptyTable == [k \in {} |-> NULL]

Put(t, id, row) == [k \in DOMAIN t \cup {id} |-> IF k = id THEN row ELSE t[k]]

Drop(t, ids) == [k \in DOMAIN t \ ids |-> t[k]]

\* rows of t whose foreign key fk points into ids
Referrers(t, fk, ids) == {k \in DOMAIN t : t[k][fk] \in ids}

\* SET_NULL as a save() of each referring row would do it: updated_at moves
SetNullTouching(t, fk, ids) ==
    [k \in DOMAIN t |-> IF t[k][fk] \in ids
                        THEN [t[k] EXCEPT ![fk] = NULL, !.updated_at = now]
                        ELSE t[k]]

\* on_delete=SET_NULL: the collector's field update, one UPDATE ... SET fk = NULL
\* over the referring rows; no save() runs, so auto_now does not fire
SetNull(t, fk, ids) ==
    [k \in DOMAIN t |-> IF t[k][fk] \in ids THEN [t[k] EXCEPT ![fk] = NULL] ELSE t[k]]

\* TimeStampedModel: created_at (auto_now_add) is set on INSERT and carried on
\* UPDATE; updated_at (auto_now) is set by every save()
Stamped(t, id, fields) ==
    fields @@ [created_at |-> IF id \in DOMAIN t THEN t[id].created_at ELSE now,
               updated_at |-> now]

Call(op, id, arg, result) == [op |-> op, id |-> id, arg |-> arg, result |-> result]

NoCall == Call("none", NULL, NULL, "ok")

Init ==
    /\ categories = EmptyTable
    /\ brands = EmptyTable
    /\ products = EmptyTable
    /\ images = EmptyTable
    /\ variants = EmptyTable
    /\ reviews = EmptyTable
    /\ users = {}
    /\ addresses = EmptyTable
    /\ coupons = EmptyTable
    /\ carts = EmptyTable
    /\ cartitems = EmptyTable
    /\ wishlists = EmptyTable
    /\ wishlistitems = EmptyTable
    /\ orders = EmptyTable
    /\ orderitems = EmptyTable
    /\ now = 0
    /\ last = NoCall

\* the clock moves between calls
Tick ==
    /\ now < MaxTime
    /\ now' = now + 1
    /\ UNCHANGED <<catalogTables, orderTables, customerTables, last>>

\* ------------------------------------------------------------ names

Repeat(c, n) == [i \in 1..n |-> c]

MensShirts == <<"M", "e", "n", "'", "s", " ", "S", "h", "i", "r", "t", "s">>
ClassicOxford == <<"C", "l", "a", "s", "s", "i", "c", " ", "O", "x", "f", "o", "r", "d">>

Messy == <<" ", "-", "_", "A", "_", "b", " ", "-", " ", "U+00E9", "'", "_", "-">>
LongName == Repeat("U+FB01", 110) \o <<"x">>

\* names a caller may give: the two of the example scenario, one with nothing a
\* slug keeps, one with an accent, an apostrophe, and hyphens and underscores
\* inside and at its ends, and one whose slug is longer than the slug column
\* (110 ligatures and a letter: 111 characters, within name's max_length of
\* 120 and 200, and 221 characters once the ligatures are written f i)
SlugNames == { MensShirts, ClassicOxford, <<"'", "'">>, Messy, LongName }

\* the name given to record id where the name is not what is looked at
NameFor(id) == <<"S", "h", "i", "r", "t", " ", ToString(id)>>

\* slugify over the names in use, evaluated once
SlugOf == [n \in SlugNames \cup {NameFor(id) : id \in Ids} |-> slugify(n)]

\* ------------------------------------------------------------ catalog: save()

\* Category.save deriving the slug at every save
CategorySlugAlways(name, slug) == Slice(SlugOf[name], CategorySlugMax)

\* Category.save: if not self.slug: self.slug = slugify(self.name)[:140]
CategorySlug(name, slug) ==
    IF slug = <<>> THEN Slice(SlugOf[name], CategorySlugMax) ELSE slug

\* Brand.save: if not self.slug: self.slug = slugify(self.name)[:140]
BrandSlug(name, slug) ==
    IF slug = <<>> THEN Slice(SlugOf[name], BrandSlugMax) ELSE slug

\* Product.save without the cut to the column's length
ProductSlugUncut(name, slug) == IF slug = <<>> THEN SlugOf[name] ELSE slug

\* Product.save: if not self.slug: self.slug = slugify(self.name)[:220]
ProductSlug(name, slug) ==
    IF slug = <<>> THEN Slice(SlugOf[name], ProductSlugMax) ELSE slug

\* Category(id, name, slug, parent).save(): slug unique; parent a stored
\* category (or the row itself) or null
CategorySave(id, name, slug, parent) ==
    LET arg == [name |-> name, slug |-> slug, parent |-> parent]
        row == [name |-> name, slug |-> CategorySlug(name, slug), parent |-> parent]
        ok  == /\ \A k \in DOMAIN categories \ {id} : categories[k].slug # row.slug
               /\ parent \in {NULL, id} \cup DOMAIN categories
    IN  /\ categories' = IF ok THEN Put(categories, id, Stamped(categories, id, row))
                         ELSE categories
        /\ last' = Call("Category.save", id, arg, IF ok THEN "ok" ELSE "IntegrityError")
        /\ UNCHANGED <<brands, products, images, variants, reviews,
                       orderTables, customerTables, now>>

\* Brand(id, name, slug).save(): name unique, slug unique
BrandSave(id, name, slug) ==
    LET arg == [name |-> name, slug |-> slug]
        row == [name |-> name, slug |-> BrandSlug(name, slug)]
        ok  == \A k \in DOMAIN brands \ {id} :
                   brands[k].name # row.name /\ brands[k].slug # row.slug
    IN  /\ brands' = IF ok THEN Put(brands, id, Stamped(brands, id, row)) ELSE brands
        /\ last' = Call("Brand.save", id, arg, IF ok THEN "ok" ELSE "IntegrityError")
        /\ UNCHANGED <<categories, products, images, variants, reviews,
                       orderTables, customerTables, now>>

\* Product(id, name, slug, category, brand).save(): slug unique; category a
\* stored category (not null); brand a stored brand or null
ProductSave(id, name, slug, category, brand) ==
    LET arg == [name |-> name, slug |-> slug, category |-> category, brand |-> brand]
        row == [name |-> name, slug |-> ProductSlug(name, slug),
                category |-> category, brand |-> brand]
        ok  == /\ \A k \in DOMAIN products \ {id} : products[k].slug # row.slug
               /\ category \in DOMAIN categories
               /\ brand \in {NULL} \cup DOMAIN brands
    IN  /\ products' = IF ok THEN Put(products, id, Stamped(products, id, row))
                       ELSE products
        /\ last' = Call("Product.save", id, arg, IF ok THEN "ok" ELSE "IntegrityError")
        /\ UNCHANGED <<categories, brands, images, variants, reviews,
                       orderTables, customerTables, now>>

\* the constraints with variant_mrp_price_nonneg left out
PriceChecksSaleOnly(mrp, sale) == sale >= 0

\* ProductVariant.Meta.constraints: variant_sale_price_nonneg, variant_mrp_price_nonneg
PriceChecks(mrp, sale) == sale >= 0 /\ mrp >= 0

\* sku looked up for a new variant only
SkuUniqueOnInsert(id, sku) ==
    id \in DOMAIN variants \/ \A k \in DOMAIN variants : variants[k].sku # sku

\* ProductVariant.sku: unique=True
SkuUnique(id, sku) == \A k \in DOMAIN variants \ {id} : variants[k].sku # sku

\* ProductVariant(id, product, sku, mrp_price, sale_price).save()
VariantSave(id, product, sku, mrp, sale) ==
    LET arg == [product |-> product, sku |-> sku, mrp_price |-> mrp, sale_price |-> sale]
        ok  == /\ SkuUnique(id, sku)
               /\ PriceChecks(mrp, sale)
               /\ product \in DOMAIN products
    IN  /\ variants' = IF ok THEN Put(variants, id, Stamped(variants, id, arg))
                       ELSE variants
        /\ last' = Call("ProductVariant.save", id, arg,
                        IF ok THEN "ok" ELSE "IntegrityError")
        /\ UNCHANGED <<categories, brands, products, images, reviews,
                       orderTables, customerTables, now>>

\* ProductImage(id, product).save()
ImageSave(id, product) ==
    LET arg == [product |-> product]
        ok  == product \in DOMAIN products
    IN  /\ images' = IF ok THEN Put(images, id, Stamped(images, id, arg)) ELSE images
        /\ last' = Call("ProductImage.save", id, arg,
                        IF ok THEN "ok" ELSE "IntegrityError")
        /\ UNCHANGED <<categories, brands, products, variants, reviews,
                       orderTables, customerTables, now>>

\* Review(id, product, user).save(): user a stored user or null
ReviewSave(id, product, user) ==
    LET arg == [product |-> product, user |-> user]
        ok  == product \in DOMAIN products /\ user \in {NULL} \cup users
    IN  /\ reviews' = IF ok THEN Put(reviews, id, Stamped(reviews, id, arg)) ELSE reviews
        /\ last' = Call("Review.save", id, arg, IF ok THEN "ok" ELSE "IntegrityError")
        /\ UNCHANGED <<categories, brands, products, images, variants,
                       orderTables, customerTables, now>>

\* ----------------------------------------------------------- catalog: delete()

\* the categories a delete of c collects: c and, through parent (CASCADE),
\* every category below it
RECURSIVE Below(_)
Below(cs) ==
    LET more == cs \cup Referrers(categories, "parent", cs)
    IN  IF more = cs THEN cs ELSE Below(more)

\* Product.category with no protection
CategoryUnprotected(cs) == FALSE

\* Product.category: on_delete=PROTECT
CategoryProtected(cs) == Referrers(products, "category", cs) # {}

\* Category(id).delete()
CategoryDelete(id) ==
    LET cs == Below({id})
        ok == ~CategoryProtected(cs)
    IN  /\ id \in DOMAIN categories
        /\ categories' = IF ok THEN Drop(categories, cs) ELSE categories
        /\ last' = Call("Category.delete", id, NULL, IF ok THEN "ok" ELSE "ProtectedError")
        /\ UNCHANGED <<brands, products, images, variants, reviews,
                       orderTables, customerTables, now>>

\* Product.brand as on_delete=CASCADE
BrandCascaded(id) == Drop(products, Referrers(products, "brand", {id}))

\* Product.brand: on_delete=SET_NULL
BrandCleared(id) == SetNull(products, "brand", {id})

\* Brand(id).delete()
BrandDelete(id) ==
    /\ id \in DOMAIN brands
    /\ products' = BrandCleared(id)
    /\ brands' = Drop(brands, {id})
    /\ last' = Call("Brand.delete", id, [products |-> Referrers(products, "brand", {id})], "ok")
    /\ UNCHANGED <<categories, images, variants, reviews,
                   orderTables, customerTables, now>>

\* the variant protected by CartItem.variant alone
VariantProtectedByCart(vs) == Referrers(cartitems, "variant", vs) # {}

\* CartItem.variant, OrderItem.variant: on_delete=PROTECT
VariantProtected(vs) ==
    Referrers(cartitems, "variant", vs) \cup Referrers(orderitems, "variant", vs) # {}

\* OrderItem.product: on_delete=PROTECT
ProductProtected(ps) == Referrers(orderitems, "product", ps) # {}

\* Product(id).delete(): collects, through product (CASCADE), its variants,
\* images, reviews and wishlist items; all are deleted in one transaction, or
\* none when a protected reference is met
ProductDelete(id) ==
    LET vs == Referrers(variants, "product", {id})
        ok == ~ProductProtected({id}) /\ ~VariantProtected(vs)
        collected == [variants |-> vs,
                      images |-> Referrers(images, "product", {id}),
                      reviews |-> Referrers(reviews, "product", {id}),
                      wishlistitems |-> Referrers(wishlistitems, "product", {id})]
    IN  /\ id \in DOMAIN products
        /\ products' = IF ok THEN Drop(products, {id}) ELSE products
        /\ variants' = IF ok THEN Drop(variants, vs) ELSE variants
        /\ images' = IF ok THEN Drop(images, collected.images) ELSE images
        /\ reviews' = IF ok THEN Drop(reviews, collected.reviews) ELSE reviews
        /\ wishlistitems' = IF ok THEN Drop(wishlistitems, collected.wishlistitems)
                            ELSE wishlistitems
        /\ last' = Call("Product.delete", id, collected,
                        IF ok THEN "ok" ELSE "ProtectedError")
        /\ UNCHANGED <<categories, brands, coupons, carts, cartitems, wishlists,
                       orders, orderitems, customerTables, now>>

\* ProductVariant(id).delete()
VariantDelete(id) ==
    LET ok == ~VariantProtected({id})
    IN  /\ id \in DOMAIN variants
        /\ variants' = IF ok THEN Drop(variants, {id}) ELSE variants
        /\ last' = Call("ProductVariant.delete", id, NULL,
                        IF ok THEN "ok" ELSE "ProtectedError")
        /\ UNCHANGED <<categories, brands, products, images, reviews,
                       orderTables, customerTables, now>>

\* ------------------------------------------------- customers and orders: save()

\* a user row is stored (the user model is the framework's)
UserCreate(u) ==
    /\ u \notin users
    /\ users' = users \cup {u}
    /\ last' = Call("User.save", u, NULL, "ok")
    /\ UNCHANGED <<catalogTables, orderTables, addresses, now>>

\* Address(id, user).save()
AddressSave(id, user) ==
    LET arg == [user |-> user]
        ok  == user \in users
    IN  /\ addresses' = IF ok THEN Put(addresses, id, Stamped(addresses, id, arg))
                        ELSE addresses
        /\ last' = Call("Address.save", id, arg, IF ok THEN "ok" ELSE "IntegrityError")
        /\ UNCHANGED <<catalogTables, orderTables, users, now>>

\* Coupon(id, code).save(): code unique
CouponSave(id, code) ==
    LET arg == [code |-> code]
        ok  == \A k \in DOMAIN coupons \ {id} : coupons[k].code # code
    IN  /\ coupons' = IF ok THEN Put(coupons, id, Stamped(coupons, id, arg)) ELSE coupons
        /\ last' = Call("Coupon.save", id, arg, IF ok THEN "ok" ELSE "IntegrityError")
        /\ UNCHANGED <<catalogTables, carts, cartitems, wishlists, wishlistitems,
                       orders, orderitems, customerTables, now>>

\* Cart(id, user, coupon).save(): user and coupon stored or null
CartSave(id, user, coupon) ==
    LET arg == [user |-> user, coupon |-> coupon]
        ok  == user \in {NULL} \cup users /\ coupon \in {NULL} \cup DOMAIN coupons
    IN  /\ carts' = IF ok THEN Put(carts, id, Stamped(carts, id, arg)) ELSE carts
        /\ last' = Call("Cart.save", id, arg, IF ok THEN "ok" ELSE "IntegrityError")
        /\ UNCHANGED <<catalogTables, coupons, cartitems, wishlists, wishlistitems,
                       orders, orderitems, customerTables, now>>

\* CartItem(id, cart, variant).save(): (cart, variant) unique together
CartItemSave(id, cart, variant) ==
    LET arg == [cart |-> cart, variant |-> variant]
        ok  == /\ cart \in DOMAIN carts
               /\ variant \in DOMAIN variants
               /\ \A k \in DOMAIN cartitems \ {id} :
                      cartitems[k].cart # cart \/ cartitems[k].variant # variant
    IN  /\ cartitems' = IF ok THEN Put(cartitems, id, Stamped(cartitems, id, arg))
                        ELSE cartitems
        /\ last' = Call("CartItem.save", id, arg, IF ok THEN "ok" ELSE "IntegrityError")
        /\ UNCHANGED <<catalogTables, coupons, carts, wishlists, wishlistitems,
                       orders, orderitems, customerTables, now>>

\* WishlistItem(id, wishlist, product).save(): (wishlist, product) unique together
WishlistItemSave(id, wishlist, product) ==
    LET arg == [wishlist |-> wishlist, product |-> product]
        ok  == /\ wishlist \in DOMAIN wishlists
               /\ product \in DOMAIN products
               /\ \A k \in DOMAIN wishlistitems \ {id} :
                      \/ wishlistitems[k].wishlist # wishlist
                      \/ wishlistitems[k].product # product
    IN  /\ wishlistitems' =
               IF ok THEN Put(wishlistitems, id, Stamped(wishlistitems, id, arg))
               ELSE wishlistitems
        /\ last' = Call("WishlistItem.save", id, arg,
                        IF ok THEN "ok" ELSE "IntegrityError")
        /\ UNCHANGED <<catalogTables, coupons, carts, cartitems, wishlists,
                       orders, orderitems, customerTables, now>>

\* Order.Status
StatusChoices == {"PENDING", "PAID", "FULFILLED", "CANCELLED", "REFUNDED"}

\* what the constructor is given for status when the caller names none
NotGiven == "(not given)"

\* Order.status with no default
StatusStoredNoDefault(status) == status

\* Order.status: default=Status.PENDING; choices are read by validation
\* (full_clean, forms), which save() does not run
StatusStored(status) == IF status = NotGiven THEN "PENDING" ELSE status

\* the status the stored row of id holds, for the record of the call
StatusWas(id) == IF id \in DOMAIN orders THEN orders[id].status ELSE NotGiven

\* Order(id, user, number, status, coupon, billing_address, shipping_address).save():
\* number unique; user and coupon stored or null; both addresses stored
OrderSave(id, user, number, status, coupon, billing, shipping) ==
    LET arg == [user |-> user, number |-> number, status |-> status, coupon |-> coupon,
                billing_address |-> billing, shipping_address |-> shipping]
        row == [arg EXCEPT !.status = StatusStored(status)]
        ok  == /\ \A k \in DOMAIN orders \ {id} : orders[k].number # number
               /\ user \in {NULL} \cup users
               /\ coupon \in {NULL} \cup DOMAIN coupons
               /\ billing \in DOMAIN addresses
               /\ shipping \in DOMAIN addresses
    IN  /\ orders' = IF ok THEN Put(orders, id, Stamped(orders, id, row)) ELSE orders
        /\ last' = Call("Order.save", id, arg, IF ok THEN "ok" ELSE "IntegrityError")
                       @@ [was |-> StatusWas(id)]
        /\ UNCHANGED <<catalogTables, coupons, carts, cartitems, wishlists,
                       wishlistitems, orderitems, customerTables, now>>

\* OrderItem(id, order, product, variant).save()
OrderItemSave(id, order, product, variant) ==
    LET arg == [order |-> order, product |-> product, variant |-> variant]
        ok  == /\ order \in DOMAIN orders
               /\ product \in DOMAIN products
               /\ variant \in DOMAIN variants
    IN  /\ orderitems' = IF ok THEN Put(orderitems, id, Stamped(orderitems, id, arg))
                         ELSE orderitems
        /\ last' = Call("OrderItem.save", id, arg, IF ok THEN "ok" ELSE "IntegrityError")
        /\ UNCHANGED <<catalogTables, coupons, carts, cartitems, wishlists,
                       wishlistitems, orders, customerTables, now>>

\* ------------------------------------------------ customers and orders: delete()

\* Order.billing_address, Order.shipping_address: on_delete=PROTECT
AddressProtected(as) ==
    Referrers(orders, "billing_address", as)
        \cup Referrers(orders, "shipping_address", as) # {}

\* User(u).delete(): collects, through user (CASCADE), the user's addresses and
\* wishlists (and their items); Cart.user, Order.user and Review.user are
\* SET_NULL; an order that points at a collected address protects it, and
\* the order itself is not collected
UserDelete(u) ==
    LET as == Referrers(addresses, "user", {u})
        ws == Referrers(wishlists, "user", {u})
        ok == ~AddressProtected(as)
    IN  /\ u \in users
        /\ users' = IF ok THEN users \ {u} ELSE users
        /\ addresses' = IF ok THEN Drop(addresses, as) ELSE addresses
        /\ wishlists' = IF ok THEN Drop(wishlists, ws) ELSE wishlists
        /\ wishlistitems' =
               IF ok THEN Drop(wishlistitems, Referrers(wishlistitems, "wishlist", ws))
               ELSE wishlistitems
        /\ carts' = IF ok THEN SetNull(carts, "user", {u}) ELSE carts
        /\ orders' = IF ok THEN SetNull(orders, "user", {u}) ELSE orders
        /\ reviews' = IF ok THEN SetNull(reviews, "user", {u}) ELSE reviews
        /\ last' = Call("User.delete", u, NULL, IF ok THEN "ok" ELSE "ProtectedError")
        /\ UNCHANGED <<categories, brands, products, images, variants,
                       coupons, cartitems, orderitems, now>>

\* Coupon(id).delete(): Cart.coupon and Order.coupon are SET_NULL
CouponDelete(id) ==
    /\ id \in DOMAIN coupons
    /\ coupons' = Drop(coupons, {id})
    /\ carts' = SetNull(carts, "coupon", {id})
    /\ orders' = SetNull(orders, "coupon", {id})
    /\ last' = Call("Coupon.delete", id, NULL, "ok")
    /\ UNCHANGED <<catalogTables, cartitems, wishlists, wishlistitems, orderitems,
                   customerTables, now>>

\* --------------------------------------------------- slug derivation (SpecSlug)

\* slugs a caller may assign: none, or one of its own choosing
SlugInputs == { <<>>, <<"s", "a", "l", "e">> }

\* the records of this specification: two, which is what a uniqueness conflict
\* and a product under a category take
SlugIds == {1, 2}

\* primary keys are uuid4 values: one key is never used in two tables
FreshOrIn(t, id) ==
    id \in DOMAIN t \/ id \notin DOMAIN categories \cup DOMAIN brands \cup DOMAIN products

\* the slug an instance loaded from its stored row carries
Loaded(t, id) == IF id \in DOMAIN t THEN {t[id].slug} ELSE {}

NextSlug ==
    \E id \in SlugIds, name \in SlugNames :
        \/ /\ FreshOrIn(categories, id)
           /\ \E slug \in SlugInputs \cup Loaded(categories, id) :
                  CategorySave(id, name, slug, NULL)
        \/ /\ FreshOrIn(brands, id)
           /\ \E slug \in SlugInputs \cup Loaded(brands, id) :
                  BrandSave(id, name, slug)
        \/ /\ FreshOrIn(products, id)
           /\ \E slug \in SlugInputs \cup Loaded(products, id), c \in DOMAIN categories :
                  ProductSave(id, name, slug, c, NULL)

SpecSlug == Init /\ [][NextSlug]_vars

\* ------------------------------------------------------------ claims C1, C2

SlugSaves == {"Category.save", "Brand.save", "Product.save"}

TableOf(op) ==
    CASE op = "Category.save" -> categories
      [] op = "Brand.save" -> brands
      [] op = "Product.save" -> products

TableAfter(op) ==
    CASE op = "Category.save" -> categories'
      [] op = "Brand.save" -> brands'
      [] op = "Product.save" -> products'

SlugMaxOf(op) ==
    CASE op = "Category.save" -> 140
      [] op = "Brand.save" -> 140
      [] op = "Product.save" -> 220

\* n times the letters f i
FiFi(n) == [i \in 1..(2 * n) |-> IF i % 2 = 1 THEN "f" ELSE "i"]

\* the lowercase-hyphenated form of each name, written out by hand
ExpectedSlug(name) ==
    CASE name = MensShirts -> <<"m", "e", "n", "s", "-", "s", "h", "i", "r", "t", "s">>
      [] name = ClassicOxford ->
             <<"c", "l", "a", "s", "s", "i", "c", "-", "o", "x", "f", "o", "r", "d">>
      [] name = <<"'", "'">> -> <<>>
      [] name = Messy -> <<"a", "_", "b", "-", "e">>
      [] name = LongName -> FiFi(110) \o <<"x">>

\* C1: a successful save of a Category, Brand or Product given an empty slug
\* stores the lowercase-hyphenated form of the name cut to the slug column's
\* length (140, 140, 220); given a non-empty slug it stores that slug.
C1_SlugDerivedOnSave ==
    [][ (last'.op \in SlugSaves /\ last'.result = "ok") =>
            LET row == TableAfter(last'.op)[last'.id]
                arg == last'.arg
            IN  /\ row.name = arg.name
                /\ row.slug = IF arg.slug = <<>>
                              THEN Slice(ExpectedSlug(arg.name), SlugMaxOf(last'.op))
                              ELSE arg.slug ]_vars

\* C1's case: a category saved with no slug under a name whose slug is longer
\* than the column holds it cut to 140, beside a product whose slug was derived
C1_Witness ==
    /\ \E c \in DOMAIN categories :
           /\ categories[c].name = LongName
           /\ categories[c].slug = FiFi(70)
    /\ \E p \in DOMAIN products :
           /\ products[p].name = ClassicOxford
           /\ products[p].slug = ExpectedSlug(ClassicOxford)
    /\ last.op = "Product.save" /\ last.arg.slug = <<>> /\ last.result = "ok"

\* C2 as claimed: a later save by a caller who has not assigned the slug (the
\* instance carries the stored slug) leaves the stored slug as it was.
C2_SlugNeverRederived ==
    [][ (/\ last'.op \in SlugSaves /\ last'.result = "ok"
         /\ last'.id \in DOMAIN TableOf(last'.op)
         /\ last'.arg.slug = TableOf(last'.op)[last'.id].slug) =>
            TableAfter(last'.op)[last'.id].slug = TableOf(last'.op)[last'.id].slug ]_vars

\* C2 amended: the same, for a record whose stored slug is not empty.
C2_NonEmptySlugKept ==
    [][ (/\ last'.op \in SlugSaves /\ last'.result = "ok"
         /\ last'.id \in DOMAIN TableOf(last'.op)
         /\ TableOf(last'.op)[last'.id].slug # <<>>
         /\ last'.arg.slug = TableOf(last'.op)[last'.id].slug) =>
            TableAfter(last'.op)[last'.id].slug = TableOf(last'.op)[last'.id].slug ]_vars

\* C2's case: a record renamed and saved again still holds the slug of its first name
C2_Witness ==
    /\ last.op = "Category.save" /\ last.result = "ok"
    /\ last.arg.name = ClassicOxford
    /\ last.arg.slug = ExpectedSlug(MensShirts)
    /\ categories[last.id].name = ClassicOxford
    /\ categories[last.id].slug = ExpectedSlug(MensShirts)

\* ------------------------------------------- categories and their products (C5)

allTables == <<catalogTables, orderTables, customerTables>>

NextCategory ==
    \E id \in Ids :
        \/ \E parent \in {NULL} \cup Ids : CategorySave(id, NameFor(id), <<>>, parent)
        \/ \E c \in Ids : ProductSave(id, NameFor(id), <<>>, c, NULL)
        \/ CategoryDelete(id)
        \/ ProductDelete(id)

SpecCategory == Init /\ [][NextCategory]_vars

\* C5: a delete of a category that a product points at ends in ProtectedError
\* and leaves every table as it was.
C5_CategoryWithProductsProtected ==
    [][ (/\ last'.op = "Category.delete"
         /\ \E p \in DOMAIN products : products[p].category = last'.id) =>
            (last'.result = "ProtectedError" /\ UNCHANGED allTables) ]_vars

\* C5's case: the refused delete of a category under which a product is stored,
\* while another category is stored too
C5_Witness ==
    /\ last.op = "Category.delete" /\ last.result = "ProtectedError"
    /\ \E p \in DOMAIN products : products[p].category = last.id
    /\ Cardinality(DOMAIN categories) = 2

\* ------------------------------------------------ brands and their products (C6)

NextBrand ==
    \/ CategorySave(1, NameFor(1), <<>>, NULL)
    \/ \E id \in Ids :
        \/ BrandSave(id, NameFor(id), <<>>)
        \/ \E b \in {NULL} \cup Ids : ProductSave(id, NameFor(id), <<>>, 1, b)
        \/ BrandDelete(id)
        \/ ProductDelete(id)

SpecBrand == Init /\ [][NextBrand]_vars

\* C6: a delete of a brand always succeeds; the brand's row is gone, every
\* product is still stored, the products that pointed at the brand differ from
\* what they were in their brand alone, which is null, and nothing else changes.
C6_BrandDeleteClearsProducts ==
    [][ last'.op = "Brand.delete" =>
            /\ last'.result = "ok"
            /\ brands' = Drop(brands, {last'.id})
            /\ DOMAIN products' = DOMAIN products
            /\ \A p \in DOMAIN products :
                   products'[p] = IF products[p].brand = last'.id
                                  THEN [products[p] EXCEPT !.brand = NULL]
                                  ELSE products[p]
            /\ UNCHANGED <<categories, images, variants, reviews,
                           orderTables, customerTables>> ]_vars

\* C6's case: the delete of a brand that two products pointed at, both stored
\* after it with no brand
C6_Witness ==
    /\ last.op = "Brand.delete" /\ last.result = "ok"
    /\ Cardinality(last.arg.products) = 2
    /\ \A p \in last.arg.products : p \in DOMAIN products /\ products[p].brand = NULL
    /\ DOMAIN brands # {}

\* ------------------------------------------------------------ timestamps (C8)

SaleCode == <<"S", "A", "L", "E">>

\* one record of each kind, saved and deleted as the clock moves
NextTime ==
    \/ Tick
    \/ CategorySave(1, NameFor(1), <<>>, NULL)
    \/ BrandSave(1, NameFor(1), <<>>)
    \/ \E b \in {NULL, 1} : ProductSave(1, NameFor(1), <<>>, 1, b)
    \/ BrandDelete(1)
    \/ CouponSave(1, SaleCode)
    \/ \E c \in {NULL, 1} : CartSave(1, NULL, c)
    \/ CouponDelete(1)

SpecTime == Init /\ [][NextTime]_vars

\* the tables of SpecTime whose rows carry the two timestamps
Touched(t, u) == \A k \in DOMAIN t \cap DOMAIN u : u[k] # t[k] => u[k].updated_at = now

CreatedKept(t, u) == \A k \in DOMAIN t \cap DOMAIN u : u[k].created_at = t[k].created_at

\* C8 as claimed: whatever changes a stored row leaves its updated_at at the
\* time of the change, and its created_at as it was.
C8_EveryMutationTouches ==
    [][ /\ Touched(categories, categories') /\ CreatedKept(categories, categories')
        /\ Touched(brands, brands') /\ CreatedKept(brands, brands')
        /\ Touched(products, products') /\ CreatedKept(products, products')
        /\ Touched(coupons, coupons') /\ CreatedKept(coupons, coupons')
        /\ Touched(carts, carts') /\ CreatedKept(carts, carts') ]_vars

SavedTable(op) ==
    CASE op = "Category.save" -> categories'
      [] op = "Brand.save" -> brands'
      [] op = "Product.save" -> products'
      [] op = "Coupon.save" -> coupons'
      [] op = "Cart.save" -> carts'

\* the rows of t that u holds with a reference cleared held the same
\* updated_at (and created_at) before
ClearedUntouched(t, u) ==
    \A k \in DOMAIN t \cap DOMAIN u :
        /\ u[k].updated_at = t[k].updated_at
        /\ u[k].created_at = t[k].created_at

\* C8 amended (a step that leaves the clock alone is a call): a successful save() leaves the saved row's updated_at at the
\* time of the save; a delete that clears a SET_NULL reference of a row leaves
\* the row's updated_at as it was; created_at is never changed.
C8_SaveTouchesSetNullDoesNot ==
    [][ /\ CreatedKept(categories, categories') /\ CreatedKept(brands, brands')
        /\ CreatedKept(products, products') /\ CreatedKept(coupons, coupons')
        /\ CreatedKept(carts, carts')
        /\ (/\ now' = now /\ last'.result = "ok"
            /\ last'.op \in {"Category.save", "Brand.save", "Product.save",
                             "Coupon.save", "Cart.save"}) =>
               SavedTable(last'.op)[last'.id].updated_at = now
        /\ (now' = now /\ last'.op = "Brand.delete") =>
               ClearedUntouched(products, products')
        /\ (now' = now /\ last'.op = "Coupon.delete") =>
               ClearedUntouched(carts, carts') ]_vars

\* C8's case: a product whose brand was cleared by the brand's delete at a time
\* later than the product's last save
C8_Witness ==
    /\ last.op = "Brand.delete" /\ last.arg.products = {1}
    /\ 1 \in DOMAIN products /\ products[1].brand = NULL
    /\ products[1].updated_at < now

\* ------------------------------------------------------- variants (C3, C4)

Skus == {"OXF-BLU-M", "OXF-BLU-L"}

\* the (mrp_price, sale_price) a caller may give, in the smallest unit of the
\* currency: both positive, both zero, one or the other negative
PricePairs == { <<2, 1>>, <<0, 0>>, <<-1, 1>>, <<2, -1>> }

\* the variants are of two products
NextVariant ==
    \/ CategorySave(1, NameFor(1), <<>>, NULL)
    \/ \E p \in {1, 2} : ProductSave(p, NameFor(p), <<>>, 1, NULL)
    \/ \E id \in Ids :
        \/ \E p \in {1, 2}, sku \in Skus, price \in PricePairs :
               VariantSave(id, p, sku, price[1], price[2])
        \/ VariantDelete(id)

SpecVariant == Init /\ [][NextVariant]_vars

\* C3: no two stored variants have one SKU, and a save of a variant under a
\* SKU that another stored variant has, of whichever product, ends in
\* IntegrityError and leaves the stored variants as they were.
C3_SkuUnique ==
    [][ /\ \A a, b \in DOMAIN variants' :
               a # b => variants'[a].sku # variants'[b].sku
        /\ (/\ last'.op = "ProductVariant.save"
            /\ \E k \in DOMAIN variants \ {last'.id} : variants[k].sku = last'.arg.sku) =>
               (last'.result = "IntegrityError" /\ variants' = variants) ]_vars

\* C3's case: the refused save of a second variant under the SKU of a stored
\* variant of another product
C3_Witness ==
    /\ last.op = "ProductVariant.save" /\ last.result = "IntegrityError"
    /\ last.arg.mrp_price >= 0 /\ last.arg.sale_price >= 0
    /\ last.arg.product \in DOMAIN products
    /\ last.id \notin DOMAIN variants
    /\ \E k \in DOMAIN variants :
           variants[k].sku = last.arg.sku /\ variants[k].product # last.arg.product

\* C4: no stored variant has a negative sale_price or mrp_price, and a save of
\* a variant with either negative ends in IntegrityError and leaves the stored
\* variants as they were.
C4_PricesNonNegative ==
    [][ /\ \A v \in DOMAIN variants' :
               variants'[v].sale_price >= 0 /\ variants'[v].mrp_price >= 0
        /\ (/\ last'.op = "ProductVariant.save"
            /\ (last'.arg.sale_price < 0 \/ last'.arg.mrp_price < 0)) =>
               (last'.result = "IntegrityError" /\ variants' = variants) ]_vars

\* C4's case: the refused update of a stored variant to a negative mrp_price
\* under its own SKU and product
C4_Witness ==
    /\ last.op = "ProductVariant.save" /\ last.result = "IntegrityError"
    /\ last.arg.mrp_price < 0 /\ last.arg.sale_price >= 0
    /\ last.id \in DOMAIN variants
    /\ variants[last.id].sku = last.arg.sku
    /\ variants[last.id].product = last.arg.product
    /\ variants[last.id].mrp_price >= 0

\* -------------------------------------------- a product and what hangs on it (C10)

At(fields, t) == fields @@ [created_at |-> t, updated_at |-> t]

OrderNumber(id) == "ORD-2025-" \o ToString(id)

\* a shop that has been set up: one category, one user with one address, one
\* cart, one wishlist and one order, all stored at time 0; no product yet
InitShop ==
    /\ categories = Put(EmptyTable, 1,
                        At([name |-> NameFor(1), slug |-> CategorySlug(NameFor(1), <<>>),
                            parent |-> NULL], 0))
    /\ brands = EmptyTable
    /\ products = EmptyTable
    /\ images = EmptyTable
    /\ variants = EmptyTable
    /\ reviews = EmptyTable
    /\ users = {1}
    /\ addresses = Put(EmptyTable, 1, At([user |-> 1], 0))
    /\ coupons = EmptyTable
    /\ carts = Put(EmptyTable, 1, At([user |-> 1, coupon |-> NULL], 0))
    /\ cartitems = EmptyTable
    /\ wishlists = Put(EmptyTable, 1, At([user |-> 1, name |-> "Default"], 0))
    /\ wishlistitems = EmptyTable
    /\ orders = Put(EmptyTable, 1,
                    At([user |-> 1, number |-> OrderNumber(1), status |-> "PENDING",
                        coupon |-> NULL, billing_address |-> 1, shipping_address |-> 1], 0))
    /\ orderitems = EmptyTable
    /\ now = 0
    /\ last = NoCall

SkuFor(id) == "SKU-" \o ToString(id)

\* two products, variants under every key; one image, one review and one
\* wishlist item, each pointed at either product; one cart item and one order
\* item, each pointed at either of the first two variants
NextProduct ==
    \/ \E id \in Ids :
        \/ \E p \in {1, 2} : VariantSave(id, p, SkuFor(id), 0, 0)
        \/ VariantDelete(id)
    \/ \E p \in {1, 2} :
        \/ ProductSave(p, NameFor(p), <<>>, 1, NULL)
        \/ ProductDelete(p)
        \/ ImageSave(1, p)
        \/ ReviewSave(1, p, NULL)
        \/ WishlistItemSave(1, 1, p)
        \/ \E v \in {1, 2} : OrderItemSave(1, 1, p, v)
    \/ \E v \in {1, 2} : CartItemSave(1, 1, v)

SpecProduct == InitShop /\ [][NextProduct]_vars

\* what is left of table t once the rows pointing at product p are gone
Without(t, p) == [k \in {j \in DOMAIN t : t[j].product # p} |-> t[k]]

\* C10: every variant, image, review, wishlist item and order item points at a
\* stored product, every cart item and order item at a stored variant; and a
\* delete of a product either is refused (an order item points at it, or a
\* cart item or order item points at one of its variants) and changes no
\* table, or removes the product and its variants, images, reviews and
\* wishlist items together and changes nothing else.
C10_ProductDeleteAllOrNothing ==
    [][ /\ \A v \in DOMAIN variants' : variants'[v].product \in DOMAIN products'
        /\ \A i \in DOMAIN images' : images'[i].product \in DOMAIN products'
        /\ \A r \in DOMAIN reviews' : reviews'[r].product \in DOMAIN products'
        /\ \A w \in DOMAIN wishlistitems' : wishlistitems'[w].product \in DOMAIN products'
        /\ \A c \in DOMAIN cartitems' : cartitems'[c].variant \in DOMAIN variants'
        /\ \A o \in DOMAIN orderitems' :
               /\ orderitems'[o].product \in DOMAIN products'
               /\ orderitems'[o].variant \in DOMAIN variants'
        /\ last'.op = "Product.delete" =>
               LET p == last'.id
                   own == {v \in DOMAIN variants : variants[v].product = p}
                   held == \/ \E o \in DOMAIN orderitems :
                                  orderitems[o].product = p \/ orderitems[o].variant \in own
                           \/ \E c \in DOMAIN cartitems : cartitems[c].variant \in own
               IN  IF held
                   THEN last'.result = "ProtectedError" /\ UNCHANGED allTables
                   ELSE /\ last'.result = "ok"
                        /\ products' = [k \in DOMAIN products \ {p} |-> products[k]]
                        /\ variants' = Without(variants, p)
                        /\ images' = Without(images, p)
                        /\ reviews' = Without(reviews, p)
                        /\ wishlistitems' = Without(wishlistitems, p)
                        /\ UNCHANGED <<categories, brands, coupons, carts, cartitems,
                                       wishlists, orders, orderitems, customerTables>> ]_vars

\* C10's case: the delete of a product went through and took a variant, the
\* image, the review and the wishlist item with it, while another product and
\* its variant, held by the order item, are still stored
C10_Witness ==
    /\ last.op = "Product.delete" /\ last.result = "ok"
    /\ last.arg.variants # {} /\ last.arg.images # {}
    /\ last.arg.reviews # {} /\ last.arg.wishlistitems # {}
    /\ last.id \notin DOMAIN products
    /\ images = EmptyTable /\ reviews = EmptyTable /\ wishlistitems = EmptyTable
    /\ \E o \in DOMAIN orderitems :
           /\ orderitems[o].product \in DOMAIN products
           /\ variants[orderitems[o].variant].product = orderitems[o].product

\* ------------------------------------------------- users and their orders (C7)

\* a new order is given no status; a stored one is saved with the status it has
NextUser ==
    \E id \in Ids :
        \/ UserCreate(id)
        \/ \E u \in Ids : AddressSave(id, u)
        \/ \E u \in {NULL} \cup Ids, b \in Ids, sh \in Ids :
               OrderSave(id, u, OrderNumber(id), StatusWas(id), NULL, b, sh)
        \/ UserDelete(id)

SpecUser == Init /\ [][NextUser]_vars

\* C7 as claimed: a delete of a user goes through, and after it every order is
\* still stored, the user's orders with no user and otherwise as they were.
C7_UserDeleteKeepsOrders ==
    [][ last'.op = "User.delete" =>
            /\ last'.result = "ok"
            /\ last'.id \notin users'
            /\ DOMAIN orders' = DOMAIN orders
            /\ \A o \in DOMAIN orders :
                   orders'[o] = IF orders[o].user = last'.id
                                THEN [orders[o] EXCEPT !.user = NULL]
                                ELSE orders[o] ]_vars

\* --------------------------------------------------------- order status (C9)

\* the statuses a caller may assign: the five of Order.Status, and one of
\* Shipment.Status that Order.Status does not have
StatusInputs == StatusChoices \cup {"SHIPPED"}

\* the statuses an instance may carry into save(): a new one, also none
Carried(id) == IF id \in DOMAIN orders THEN StatusInputs ELSE StatusInputs \cup {NotGiven}

NextStatus ==
    \E id \in Ids :
        \E status \in Carried(id) : OrderSave(id, 1, OrderNumber(id), status, NULL, 1, 1)

SpecStatus == InitShop /\ [][NextStatus]_vars

\* C9 as claimed, its first part: every stored order's status is one of the five.
C9_StatusAlwaysAChoice ==
    \A o \in DOMAIN orders : orders[o].status \in StatusChoices

\* C9 amended: a save of an order whose references are stored and whose number
\* is its own goes through whatever status the order had and is given; the
\* stored status is PENDING when none was given and the given one otherwise;
\* no other order and no other table changes.
C9_StatusStoredAsGiven ==
    [][ last'.op = "Order.save" =>
            /\ last'.result = "ok"
            /\ last'.id \in DOMAIN orders'
            /\ orders'[last'.id].status = IF last'.arg.status = NotGiven THEN "PENDING"
                                          ELSE last'.arg.status
            /\ \A o \in DOMAIN orders \ {last'.id} :
                   o \in DOMAIN orders' /\ orders'[o] = orders[o]
            /\ DOMAIN orders' = DOMAIN orders \cup {last'.id}
            /\ UNCHANGED <<catalogTables, coupons, carts, cartitems, wishlists,
                           wishlistitems, orderitems, customerTables>> ]_vars

\* C9's case: an order that was REFUNDED is PENDING after a save that set it,
\* beside an order created with no status given and stored as PENDING
C9_Witness ==
    /\ last.op = "Order.save" /\ last.result = "ok"
    /\ last.was = "REFUNDED" /\ last.arg.status = "PENDING"
    /\ orders[last.id].status = "PENDING"
    /\ \E o \in DOMAIN orders \ {last.id} : orders[o].status \in StatusChoices

\* ------------------------------------------------------------ the whole model

\* every call of the model; each claim is checked under the calls on the
\* tables it is about
Next ==
    \/ NextSlug \/ NextCategory \/ NextBrand \/ NextTime
    \/ NextVariant \/ NextProduct \/ NextUser \/ NextStatus

Spec == Init /\ [][Next]_vars

====
